---- MODULE Spec2Model ----
(***************************************************************************)
(* Model of the text-search database (searchable_text_db_efficient.py)     *)
(* and of its web front end (text_search_webui.py).                        *)
(*                                                                         *)
(* Text is a sequence of one-character strings.  The store is the table    *)
(* text_files (a function from row id to row) together with the index     *)
(* text_files_fts (a set of index entries), each in a working copy, seen   *)
(* by the connection that wrote it, and a durable copy, written by commit. *)
(***************************************************************************)
EXTENDS Integers, Sequences, FiniteSets, TLC

\* ------------------------------------------------------------------ bounds
MaxRows == 2        \* rows the table holds in the store specification
MaxFiles == 4       \* documents the corpus scan enumerates
MaxBatch == 3       \* largest batch_size tried
SmallSample == 2    \* a content_sample_size shorter than the documents
MaxQueryLen == 3    \* longest query string
MaxReloadLen == 2   \* longest query string tried while files disappear
MaxLimit == 2       \* largest limit tried besides the default
MaxWindow == 1      \* largest snippet_length of a query
MaxTextLen == 5     \* longest live text a snippet is cut from
MaxSnippetQuery == 2   \* longest query a snippet is cut for
MaxSnippetWindow == 2  \* largest snippet_length a snippet is cut with
MaxRequests == 2    \* web requests served at the same time
MaxConnects == 3    \* connections search_database opens in all
MaxTokenLen == 2    \* longest directory token of an image request
MaxNameLen == 2     \* longest filename of an image request
MaxBodyQueryLen == 1   \* longest query of a POST /search body
MaxRuns == 2        \* calls of index_text_files on one store
MaxReindexFiles == 2   \* documents of the corpus that is indexed again
MaxDocLen == 3      \* longest text of the document whose full text is queried

\* ------------------------------------------------------------- text helpers
Min(a, b) == IF a <= b THEN a ELSE b
Max(a, b) == IF a >= b THEN a ELSE b

\* Python slice s[lo:hi] for 0 <= lo, 0 <= hi (0-based, hi exclusive, clipped)
Slice(s, lo, hi) == SubSeq(s, lo + 1, Min(hi, Len(s)))

RECURSIVE Flatten(_)
Flatten(ss) == IF ss = <<>> THEN <<>> ELSE Head(ss) \o Flatten(Tail(ss))

\* position (1-based) of the last "/" in p, 0 when there is none
RECURSIVE LastSlash(_, _)
LastSlash(p, k) == IF k = 0 THEN 0 ELSE IF p[k] = "/" THEN k ELSE LastSlash(p, k - 1)

\* os.path.basename
Basename(p) == SubSeq(p, LastSlash(p, Len(p)) + 1, Len(p))

\* ------------------------------------------------------------------- corpus
DotTxt == <<".", "t", "x", "t">>
CorpusDir == <<"d", "/">>

\* the k-th document of the corpus: a.txt, b.txt, aa.txt, bb.txt, ...
Stem(k) == [n \in 1..((k + 1) \div 2) |-> IF k % 2 = 1 THEN "a" ELSE "b"]
PathOf(k) == CorpusDir \o Stem(k) \o DotTxt

DocTexts == << <<"b", " ", "b">>,
               <<"b", " ", "a", " ", "a">>,
               <<"A", " ", "b", " ", "a">>,
               <<"b", " ", "O", "R", " ", "f", "i", "l", "e", "n", "a", "m", "e">> >>
\* what the k-th document holds on disk when the corpus is created
TextOf(k) == DocTexts[((k - 1) % Len(DocTexts)) + 1]

CorpusPaths == {PathOf(k) : k \in 1..MaxFiles}
InitialDisk == [p \in CorpusPaths |-> TextOf(CHOOSE k \in 1..MaxFiles : PathOf(k) = p)]

VARIABLES
    tf,            \* text_files as the writing connection sees it: id -> row
    fts,           \* text_files_fts as the writing connection sees it
    dtf,           \* text_files as committed
    dfts,          \* text_files_fts as committed
    pending,       \* the trigger the running statement has still to fire
    disk,          \* path -> text of the file
    unreadable,    \* paths whose open() raises
    pc,            \* where index_text_files is
    txt_files,     \* the enumeration glob returned
    batch_size,
    content_sample_size,
    i,             \* start of the current batch, range(0, total_files, batch_size)
    j,             \* documents of the enumeration the inner loop has passed
    commits,       \* conn.commit() calls of the run
    readFailed,    \* paths whose read raised during the run
    insertFailed,  \* paths whose INSERT raised during the run
    ret,           \* return value of index_text_files: <<>> is None, <<n>> is n
    reported,      \* the count the final message prints
    runs,          \* calls of index_text_files on this store so far
    q_op,          \* the query operation that ran last, "none" once consumed
    q_query,       \* its query string
    q_type,        \* its scope: the method called, or the web search_type
    q_limit,       \* its limit
    q_window,      \* its snippet_length
    fts_query,     \* the MATCH argument it handed to the engine
    q_raised,      \* whether it raised to its caller
    results,       \* what it returned
    hits,          \* per returned hit, the locals of the loop that built it
    resp,          \* what the route handler that ran last answered
    conns,         \* the connections of search_database that are open
    opened,        \* how many connections search_database has opened so far
    req            \* per web request, where its search_database call is

storeVars == <<tf, fts, dtf, dfts, pending>>
diskVars == <<disk, unreadable>>
indexVars == <<pc, txt_files, batch_size, content_sample_size, i, j, commits,
               readFailed, insertFailed, ret, reported, runs>>
queryVars == <<q_op, q_query, q_type, q_limit, q_window, fts_query, q_raised,
               results, hits>>
webVars == <<resp, conns, opened, req>>
vars == <<storeVars, diskVars, indexVars, queryVars, webVars>>

\* -------------------------------------------------------------------- store
EmptyTable == [id \in {} |-> <<>>]
NoTrigger == [kind |-> "none"]

Row(id, filename, filepath, content) ==
    [id |-> id, filename |-> filename, filepath |-> filepath, content |-> content]

\* INTEGER PRIMARY KEY without AUTOINCREMENT: one more than the largest rowid
NextRowid(t) ==
    IF DOMAIN t = {} THEN 1
    ELSE (CHOOSE m \in DOMAIN t : \A n \in DOMAIN t : n <= m) + 1

\* the index entry the triggers write for a row
FtsEntry(r) ==
    [rowid |-> r.id, id |-> r.id, content |-> r.content,
     filename |-> r.filename, filepath |-> r.filepath]

\* trigger text_files_ai
Trigger_ai(f, new) == f \cup {FtsEntry(new)}

Trigger_ad_keep(f, old) == f
\* trigger text_files_ad: the 'delete' command with the old values
Trigger_ad(f, old) == f \ {FtsEntry(old)}

\* trigger text_files_au: 'delete' of the old values, then insert of the new
Trigger_au(f, old, new) == (f \ {FtsEntry(old)}) \cup {FtsEntry(new)}

FireTrigger(f, t) ==
    CASE t.kind = "ai" -> Trigger_ai(f, t.new)
      [] t.kind = "ad" -> Trigger_ad(f, t.old)
      [] t.kind = "au" -> Trigger_au(f, t.old, t.new)
      [] OTHER -> f

\* INSERT INTO text_files (filename, filepath, content) VALUES (?, ?, ?)
InsertRow(t, filename, filepath, content) ==
    LET id == NextRowid(t)
    IN  [n \in DOMAIN t \cup {id} |->
            IF n = id THEN Row(id, filename, filepath, content) ELSE t[n]]

DeleteRow(t, id) == [n \in DOMAIN t \ {id} |-> t[n]]

UpdateRow(t, id, filename, filepath, content) ==
    [t EXCEPT ![id] = Row(id, filename, filepath, content)]

\* values the store specification writes
StoreNames == {Stem(1) \o DotTxt, Stem(2) \o DotTxt}
StoreTexts == {DocTexts[1], DocTexts[4]}

\* a statement changes the table; its AFTER trigger is still to run
StoreInsert(filename, content) ==
    /\ pending = NoTrigger
    /\ Cardinality(DOMAIN tf) < MaxRows
    /\ tf' = InsertRow(tf, filename, CorpusDir \o filename, content)
    /\ pending' = [kind |-> "ai", new |-> tf'[NextRowid(tf)]]
    /\ UNCHANGED <<fts, dtf, dfts, queryVars, diskVars, indexVars, webVars>>

StoreUpdate(id, filename, content) ==
    /\ pending = NoTrigger
    /\ id \in DOMAIN tf
    /\ tf' = UpdateRow(tf, id, filename, CorpusDir \o filename, content)
    /\ pending' = [kind |-> "au", old |-> tf[id], new |-> tf'[id]]
    /\ UNCHANGED <<fts, dtf, dfts, queryVars, diskVars, indexVars, webVars>>

StoreDelete(id) ==
    /\ pending = NoTrigger
    /\ id \in DOMAIN tf
    /\ tf' = DeleteRow(tf, id)
    /\ pending' = [kind |-> "ad", old |-> tf[id]]
    /\ UNCHANGED <<fts, dtf, dfts, queryVars, diskVars, indexVars, webVars>>

\* the statement's trigger runs; the statement is then complete
StoreTrigger ==
    /\ pending # NoTrigger
    /\ fts' = FireTrigger(fts, pending)
    /\ pending' = NoTrigger
    /\ UNCHANGED <<tf, dtf, dfts, queryVars, diskVars, indexVars, webVars>>

\* conn.commit() between statements
StoreCommit ==
    /\ pending = NoTrigger
    /\ <<tf, fts>> # <<dtf, dfts>>
    /\ dtf' = tf
    /\ dfts' = fts
    /\ UNCHANGED <<tf, fts, pending, queryVars, diskVars, indexVars, webVars>>

\* the process dies, or closes the connection without commit, and the store
\* is opened again: the open transaction is rolled back
StoreCrash ==
    /\ \/ pending # NoTrigger
       \/ <<tf, fts>> # <<dtf, dfts>>
    /\ tf' = dtf
    /\ fts' = dfts
    /\ pending' = NoTrigger
    /\ UNCHANGED <<dtf, dfts, queryVars, diskVars, indexVars, webVars>>

IdleIndex ==
    /\ pc = "idle"
    /\ txt_files = <<>>
    /\ batch_size = 1
    /\ content_sample_size = 0
    /\ i = 0
    /\ j = 0
    /\ commits = 0
    /\ readFailed = {}
    /\ insertFailed = {}
    /\ ret = <<>>
    /\ reported = 0
    /\ runs = 0

\* the store after TextSearchDatabase() on a new file
InitStoreEmpty ==
    /\ tf = EmptyTable
    /\ fts = {}
    /\ dtf = EmptyTable
    /\ dfts = {}
    /\ pending = NoTrigger

\* no route handler has answered, no request is being served
NoResponse == [route |-> "none"]
Requests == 1..MaxRequests
IdleRequest == [pc |-> "idle"]
IdleWeb ==
    /\ resp = NoResponse
    /\ conns = {}
    /\ opened = 0
    /\ req = [r \in Requests |-> IdleRequest]

IdleQuery ==
    /\ q_op = "none"
    /\ q_query = <<>>
    /\ q_type = "none"
    /\ q_limit = 0
    /\ q_window = 0
    /\ fts_query = <<>>
    /\ q_raised = FALSE
    /\ results = <<>>
    /\ hits = <<>>

InitStore ==
    /\ InitStoreEmpty
    /\ disk = InitialDisk
    /\ unreadable = {}
    /\ IdleIndex
    /\ IdleQuery
    /\ IdleWeb

NextStore ==
    \/ \E fn \in StoreNames, c \in StoreTexts : StoreInsert(fn, c)
    \/ \E id \in 1..MaxRows, fn \in StoreNames, c \in StoreTexts : StoreUpdate(id, fn, c)
    \/ \E id \in 1..MaxRows : StoreDelete(id)
    \/ StoreTrigger
    \/ StoreCommit
    \/ StoreCrash

SpecStore == InitStore /\ [][NextStore]_vars

\* C1: in every committed state the projection holds exactly one entry per
\* existing record id, carrying that record's content, filename and filepath,
\* and no entry for an id that does not exist.
ProjectionMirrorsCommitted ==
    /\ \A id \in DOMAIN dtf :
          /\ dtf[id].id = id
          /\ Cardinality({e \in dfts : e.rowid = id}) = 1
          /\ \A e \in dfts : e.rowid = id =>
                /\ e.id = id
                /\ e.content = dtf[id].content
                /\ e.filename = dtf[id].filename
                /\ e.filepath = dtf[id].filepath
    /\ \A e \in dfts : e.rowid \in DOMAIN dtf

\* an update statement is under way on top of a committed state that an
\* insert and a delete have shaped: row 1 is gone while row 2 exists
C1Witness ==
    /\ DOMAIN dtf = {2}
    /\ dfts = {FtsEntry(dtf[2])}
    /\ pending.kind = "au"

\* ------------------------------------------------------------------ indexer
\* batch = txt_files[i:i + batch_size]
Batch_overlap(files, start, size) == Slice(files, start, start + size + 1)
Batch(files, start, size) == Slice(files, start, start + size)

ReadSample_short(file_path, sample_size) ==
    IF file_path \in unreadable THEN <<>>
    ELSE Slice(disk[file_path], 0, sample_size - 1)
\* _read_file_content_sample: the first sample_size characters of the file;
\* an open() that raises is caught inside and the empty string returned
ReadSample(file_path, sample_size) ==
    IF file_path \in unreadable THEN <<>>
    ELSE Slice(disk[file_path], 0, sample_size)

\* "except Exception ... continue" around the body of the inner loop
HandlerCatches_nothing(exc) == FALSE
HandlerCatches(exc) == exc \in {"read", "insert"}

\* falling off the end of index_text_files returns None
IndexReturnValue(total_files, inserted) == <<>>

\* the count of the closing message "Indexing complete! Indexed ... files."
IndexReportedCount(total_files, inserted) == total_files

\* one pass of the inner loop: read the sample, take the basename, INSERT
\* (which fires text_files_ai); an INSERT that raises is caught and skipped
IndexFile ==
    /\ pc = "loop"
    /\ i < Len(txt_files)
    /\ j - i < Len(Batch(txt_files, i, batch_size))
    /\ LET file_path == Batch(txt_files, i, batch_size)[j - i + 1]
           content_sample == ReadSample(file_path, content_sample_size)
           filename == Basename(file_path)
           id == NextRowid(tf)
       IN  /\ readFailed' = IF file_path \in unreadable
                            THEN readFailed \cup {file_path} ELSE readFailed
           /\ \/ /\ tf' = InsertRow(tf, filename, file_path, content_sample)
                 /\ fts' = Trigger_ai(fts, tf'[id])
                 /\ j' = j + 1
                 /\ UNCHANGED <<pc, insertFailed>>
              \/ /\ insertFailed' = insertFailed \cup {file_path}
                 /\ IF HandlerCatches("insert")
                    THEN /\ j' = j + 1
                         /\ UNCHANGED pc
                    ELSE /\ pc' = "aborted"
                         /\ UNCHANGED j
                 /\ UNCHANGED <<tf, fts>>
    /\ UNCHANGED <<dtf, dfts, pending, queryVars, diskVars, txt_files, batch_size,
                   content_sample_size, i, commits, ret, reported, runs, webVars>>

\* the batch is exhausted: conn.commit(), then the next value of range()
IndexCommit ==
    /\ pc = "loop"
    /\ i < Len(txt_files)
    /\ j - i = Len(Batch(txt_files, i, batch_size))
    /\ dtf' = tf
    /\ dfts' = fts
    /\ commits' = commits + 1
    /\ i' = i + batch_size
    /\ UNCHANGED <<tf, fts, pending, queryVars, diskVars, pc, txt_files, batch_size,
                   content_sample_size, j, readFailed, insertFailed, ret, reported,
                   runs, webVars>>

\* range() is exhausted: the closing message, and the function returns
IndexFinish ==
    /\ pc = "loop"
    /\ i >= Len(txt_files)
    /\ pc' = "done"
    /\ ret' = IndexReturnValue(Len(txt_files), Cardinality(DOMAIN tf))
    /\ reported' = IndexReportedCount(Len(txt_files), Cardinality(DOMAIN tf))
    /\ UNCHANGED <<storeVars, queryVars, diskVars, txt_files, batch_size,
                   content_sample_size, i, j, commits, readFailed, insertFailed,
                   runs, webVars>>

\* the process dies during the run; the store keeps what was committed
IndexCrash ==
    /\ pc = "loop"
    /\ pc' = "crashed"
    /\ tf' = dtf
    /\ fts' = dfts
    /\ UNCHANGED <<dtf, dfts, pending, queryVars, diskVars, txt_files, batch_size,
                   content_sample_size, i, j, commits, readFailed, insertFailed,
                   ret, reported, runs, webVars>>

DefaultSampleSize == 10240
SampleSizes == {SmallSample, DefaultSampleSize}

\* index_text_files(text_directory, batch_size, content_sample_size) is called
\* on a new store; glob has returned the first n documents of the corpus
InitIndex ==
    /\ InitStoreEmpty
    /\ disk = InitialDisk
    /\ unreadable \in SUBSET CorpusPaths
    /\ pc = "loop"
    /\ \E n \in 0..MaxFiles : txt_files = [k \in 1..n |-> PathOf(k)]
    /\ batch_size \in 1..MaxBatch
    /\ content_sample_size \in SampleSizes
    /\ i = 0
    /\ j = 0
    /\ commits = 0
    /\ readFailed = {}
    /\ insertFailed = {}
    /\ ret = <<>>
    /\ reported = 0
    /\ runs = 1
    /\ IdleQuery
    /\ IdleWeb

NextIndex ==
    \/ IndexFile
    \/ IndexCommit
    \/ IndexFinish
    \/ IndexCrash

SpecIndex == InitIndex /\ [][NextIndex]_vars

\* a run that is not killed: the interpreter always takes the next step
NextIndexRun ==
    \/ IndexFile
    \/ IndexCommit
    \/ IndexFinish

FairSpecIndex == InitIndex /\ [][NextIndexRun]_vars /\ WF_vars(NextIndexRun)

CeilDiv(n, d) == (n + d - 1) \div d

\* the committed table holds exactly one row per path of paths, in that order,
\* under ids 1..Len(paths), each with the path's basename, and the committed
\* index mirrors it
DurableRowsAre(paths) ==
    /\ DOMAIN dtf = 1..Len(paths)
    /\ \A k \in 1..Len(paths) :
          /\ dtf[k].filepath = paths[k]
          /\ dtf[k].filename = Basename(paths[k])
    /\ dfts = {FtsEntry(dtf[k]) : k \in DOMAIN dtf}

CommitsFollowBatches ==
    /\ i = commits * batch_size
    /\ commits <= CeilDiv(Len(txt_files), batch_size)
    /\ j >= Min(i, Len(txt_files))
    /\ j <= Min(i + batch_size, Len(txt_files))
    /\ pc = "done" => commits = CeilDiv(Len(txt_files), batch_size)

\* C2 as stated: one commit after each batch, CeilDiv(N, batch_size) in all,
\* and whenever the process stops the durable records are exactly those of
\* the first min(commits * batch_size, N) enumerated documents.
DurableAreFirstBatches ==
    /\ CommitsFollowBatches
    /\ DurableRowsAre(SubSeq(txt_files, 1, Min(commits * batch_size, Len(txt_files))))

\* C2 as amended: ... exactly those of the first min(commits * batch_size, N)
\* enumerated documents whose INSERT did not raise.
DurableAreFirstBatchesInserted ==
    /\ CommitsFollowBatches
    /\ DurableRowsAre(SelectSeq(
           SubSeq(txt_files, 1, Min(commits * batch_size, Len(txt_files))),
           LAMBDA p : p \notin insertFailed))

\* the process died after a commit, in the middle of a later batch, and one
\* document of a committed batch had been skipped
C2Witness ==
    /\ pc = "crashed"
    /\ commits >= 1
    /\ j > i
    /\ j < Len(txt_files)
    /\ \E k \in 1..i : txt_files[k] \in insertFailed

\* C4: after the run the store holds no record and no index entry for a
\* document whose read failed.
UnreadableSkipped ==
    pc = "done" =>
        /\ \A id \in DOMAIN dtf : dtf[id].filepath \notin readFailed
        /\ \A e \in dfts : e.filepath \notin readFailed

\* no exception leaves the loop, and a run that has ended has passed every
\* enumerated document, stored every document whose INSERT did not raise, and
\* committed every batch
RunCompletes ==
    /\ pc # "aborted"
    /\ pc = "done" =>
          /\ j = Len(txt_files)
          /\ {dtf[id].filepath : id \in DOMAIN dtf}
                = {txt_files[k] : k \in 1..Len(txt_files)} \ insertFailed
          /\ <<dtf, dfts>> = <<tf, fts>>
          /\ commits = CeilDiv(Len(txt_files), batch_size)

\* C5: a failure while processing a document never aborts the batch or the
\* run: every other document is still processed, every batch is committed and
\* the run ends normally.
FailureNeverAborts == []RunCompletes /\ <>(pc = "done")

\* a run of several batches ended after a read and an INSERT had failed in
\* its first batch
C5Witness ==
    /\ pc = "done"
    /\ commits >= 2
    /\ \E k \in 1..batch_size : txt_files[k] \in insertFailed
    /\ \E k \in 1..batch_size : txt_files[k] \in readFailed

\* C6: the value returned equals the number of documents inserted in the run.
ReturnsInsertedCount ==
    pc = "done" => ret = <<Len(txt_files) - Cardinality(insertFailed)>>

\* ------------------------------------------------------ the full-text engine
\* What "text_files_fts MATCH ?" does with the string the code hands it:
\* the FTS5 query syntax (barewords, "strings" with "" for a quote, column
\* filters, implicit AND, OR) over the unicode61 tokens of the indexed columns.
LowerCase == <<"a", "b", "c", "d", "e", "f", "g", "h", "i", "j", "k", "l", "m",
               "n", "o", "p", "q", "r", "s", "t", "u", "v", "w", "x", "y", "z">>
UpperCase == <<"A", "B", "C", "D", "E", "F", "G", "H", "I", "J", "K", "L", "M",
               "N", "O", "P", "Q", "R", "S", "T", "U", "V", "W", "X", "Y", "Z">>
Digits == <<"0", "1", "2", "3", "4", "5", "6", "7", "8", "9">>

Range(f) == {f[x] : x \in DOMAIN f}
AlnumChars == Range(LowerCase) \cup Range(UpperCase) \cup Range(Digits)
IsAlnum(c) == c \in AlnumChars

\* case folding of one character
LowerOf == [c \in Range(UpperCase) |-> LowerCase[CHOOSE n \in 1..26 : UpperCase[n] = c]]
Lower(c) == IF c \in DOMAIN LowerOf THEN LowerOf[c] ELSE c
LowerText(t) == [n \in 1..Len(t) |-> Lower(t[n])]

\* str(n) for 0 <= n
RECURSIVE DecimalOf(_)
DecimalOf(n) == IF n < 10 THEN <<Digits[n + 1]>>
                ELSE DecimalOf(n \div 10) \o <<Digits[(n % 10) + 1]>>

\* first position >= k of s that does not hold a character of the run
RECURSIVE RunEnd(_, _, _)
RunEnd(s, k, chars) ==
    IF k > Len(s) \/ s[k] \notin chars THEN k ELSE RunEnd(s, k + 1, chars)

\* the tokenizer: maximal runs of letters and digits, case folded
RECURSIVE TokensFrom(_, _)
TokensFrom(t, k) ==
    IF k > Len(t) THEN <<>>
    ELSE IF IsAlnum(t[k])
         THEN LET e == RunEnd(t, k, AlnumChars)
              IN  <<LowerText(SubSeq(t, k, e - 1))>> \o TokensFrom(t, e)
         ELSE TokensFrom(t, k + 1)
Tokenize(t) == TokensFrom(t, 1)

BareChars == AlnumChars \cup {"_"}
IsBareChar(c) == c \in BareChars
Keywords == {<<"O", "R">>, <<"A", "N", "D">>, <<"N", "O", "T">>}

LexError == [err |-> TRUE, toks |-> <<>>]
LexCons(tok, rest) ==
    IF rest.err THEN LexError ELSE [err |-> FALSE, toks |-> <<tok>> \o rest.toks]

\* the body of a "string" that opened before position k: up to the closing
\* quote, "" standing for one quote; err when the text ends first
RECURSIVE ScanString(_, _, _)
ScanString(s, k, acc) ==
    IF k > Len(s) THEN [err |-> TRUE, text |-> acc, next |-> k]
    ELSE IF s[k] = "\""
         THEN IF k + 1 <= Len(s) /\ s[k + 1] = "\""
              THEN ScanString(s, k + 2, acc \o <<"\"">>)
              ELSE [err |-> FALSE, text |-> acc, next |-> k + 1]
         ELSE ScanString(s, k + 1, acc \o <<s[k]>>)

RECURSIVE LexFrom(_, _)
LexFrom(s, k) ==
    IF k > Len(s) THEN [err |-> FALSE, toks |-> <<>>]
    ELSE IF s[k] = " " THEN LexFrom(s, k + 1)
    ELSE IF s[k] = "\""
         THEN LET r == ScanString(s, k + 1, <<>>)
              IN  IF r.err THEN LexError
                  ELSE LexCons([type |-> "STR", text |-> r.text], LexFrom(s, r.next))
    ELSE IF s[k] = ":"
         THEN LexCons([type |-> "COLON", text |-> <<>>], LexFrom(s, k + 1))
    ELSE IF IsBareChar(s[k])
         THEN LET e == RunEnd(s, k, BareChars)
                  w == SubSeq(s, k, e - 1)
              IN  LexCons([type |-> IF w \in Keywords THEN "KW" ELSE "BARE",
                           text |-> w], LexFrom(s, e))
    ELSE LexError

ColId == <<"i", "d">>
ColContent == <<"c", "o", "n", "t", "e", "n", "t">>
ColFilename == <<"f", "i", "l", "e", "n", "a", "m", "e">>
ColFilepath == <<"f", "i", "l", "e", "p", "a", "t", "h">>
\* the columns of text_files_fts
FtsColumns == {ColId, ColContent, ColFilename, ColFilepath}
AnyColumn == <<>>

ParseError == [err |-> TRUE, ors |-> <<>>]
IsPhraseTok(t) == t.type \in {"BARE", "STR"}

\* expr := conj ("OR" conj)* ; conj := term+ ; term := [column ":"] phrase
\* ors: the conjunctions closed so far; cur: the terms of the open one
RECURSIVE ParseFrom(_, _, _, _)
ParseFrom(toks, k, ors, cur) ==
    IF k > Len(toks)
    THEN IF cur = <<>> THEN ParseError
         ELSE [err |-> FALSE, ors |-> Append(ors, cur)]
    ELSE IF toks[k].type = "KW"
         THEN IF toks[k].text # <<"O", "R">> \/ cur = <<>> \/ k = Len(toks)
              THEN ParseError
              ELSE ParseFrom(toks, k + 1, Append(ors, cur), <<>>)
    ELSE IF IsPhraseTok(toks[k]) /\ k + 1 <= Len(toks) /\ toks[k + 1].type = "COLON"
         THEN IF \/ k + 2 > Len(toks)
                 \/ ~IsPhraseTok(toks[k + 2])
                 \/ toks[k].text \notin FtsColumns
              THEN ParseError
              ELSE ParseFrom(toks, k + 3, ors,
                      Append(cur, [col |-> toks[k].text,
                                   phrase |-> Tokenize(toks[k + 2].text)]))
    ELSE IF IsPhraseTok(toks[k])
         THEN ParseFrom(toks, k + 1, ors,
                 Append(cur, [col |-> AnyColumn, phrase |-> Tokenize(toks[k].text)]))
    ELSE ParseError

ParseQuery(s) ==
    LET l == LexFrom(s, 1)
    IN  IF l.err THEN ParseError ELSE ParseFrom(l.toks, 1, <<>>, <<>>)

\* the text of one column of an index entry
ColumnText(e, col) ==
    CASE col = ColId -> DecimalOf(e.id)
      [] col = ColContent -> e.content
      [] col = ColFilename -> e.filename
      [] col = ColFilepath -> e.filepath

\* how often the token sequence phrase occurs in the token sequence toks
PhraseCount_anyOrder(toks, phrase) ==
    IF \A n \in 1..Len(phrase) : \E m \in 1..Len(toks) : toks[m] = phrase[n]
    THEN 1 ELSE 0
PhraseCount(toks, phrase) ==
    Cardinality({n \in 1..(Len(toks) - Len(phrase) + 1) :
                    SubSeq(toks, n, n + Len(phrase) - 1) = phrase})

TermColumns(term) == IF term.col = AnyColumn THEN FtsColumns ELSE {term.col}

TermCount(e, term) ==
    LET cols == TermColumns(term)
        Sum[cs \in SUBSET cols] ==
            IF cs = {} THEN 0
            ELSE LET c == CHOOSE x \in cs : TRUE
                 IN  PhraseCount(Tokenize(ColumnText(e, c)), term.phrase) + Sum[cs \ {c}]
    IN  Sum[cols]

\* a conjunction matches when each of its terms with a non-empty phrase does;
\* a phrase with no token is dropped, a conjunction of only such matches nothing
ConjMatches(e, conj) ==
    LET live == {n \in 1..Len(conj) : conj[n].phrase # <<>>}
    IN  /\ live # {}
        /\ \A n \in live : TermCount(e, conj[n]) > 0

ExprMatches(e, ors) == \E n \in 1..Len(ors) : ConjMatches(e, ors[n])

\* the engine's rank of a matching entry, an ordering key where less is
\* better: the more occurrences of the query's phrases, the smaller
RankOf(e, ors) ==
    LET terms == Flatten(ors)
        Sum[n \in 0..Len(terms)] ==
            IF n = 0 THEN 0 ELSE TermCount(e, terms[n]) + Sum[n - 1]
    IN  0 - Sum[Len(terms)]

\* ------------------------------------------------------------ query building
Quote == "\""
HasSpace(query) == \E n \in 1..Len(query) : query[n] = " "

\* str.replace(old, new) for a non-empty old: left to right, not overlapping
RECURSIVE ReplaceFrom(_, _, _, _)
ReplaceFrom(s, k, old, new) ==
    IF k > Len(s) THEN <<>>
    ELSE IF k + Len(old) - 1 <= Len(s) /\ SubSeq(s, k, k + Len(old) - 1) = old
         THEN new \o ReplaceFrom(s, k + Len(old), old, new)
         ELSE <<s[k]>> \o ReplaceFrom(s, k + 1, old, new)
Replace(s, old, new) == ReplaceFrom(s, 1, old, new)

QuotedQuery_unescaped(query) ==
    IF HasSpace(query) THEN <<Quote>> \o query \o <<Quote>> ELSE query
\* quoted_query: a query with a space has its quotes doubled and is wrapped
\* in quotes; any other query is used as it is
QuotedQuery(query) ==
    IF HasSpace(query)
    THEN <<Quote>> \o Replace(query, <<Quote>>, <<Quote, Quote>>) \o <<Quote>>
    ELSE query

FieldTerm(col, query) == col \o <<":">> \o QuotedQuery(query)

OrWord == <<" ", "O", "R", " ">>
BothQuery_contentOnly(query) == FieldTerm(ColContent, query)
\* f"content:{quoted_query} OR filename:{quoted_query}"
BothQuery(query) ==
    FieldTerm(ColContent, query) \o OrWord \o FieldTerm(ColFilename, query)

\* the MATCH argument of a scope
FtsQueryOf(scope, query) ==
    CASE scope = "content" -> FieldTerm(ColContent, query)
      [] scope = "filename" -> FieldTerm(ColFilename, query)
      [] scope = "both" -> BothQuery(query)

\* ------------------------------------------------------------ query execution
\* ORDER BY rank: least rank first, ties in rowid order
RECURSIVE OrderByRank(_, _)
OrderByRank(es, rank) ==
    IF es = {} THEN <<>>
    ELSE LET first == CHOOSE e \in es : \A o \in es :
                          \/ rank[e] < rank[o]
                          \/ /\ rank[e] = rank[o]
                             /\ e.rowid <= o.rowid
         IN  <<first>> \o OrderByRank(es \ {first}, rank)

\* SELECT tf.filename, tf.filepath, tf.content, text_files_fts.rank
\* FROM text_files_fts JOIN text_files AS tf ON text_files_fts.rowid = tf.id
\* WHERE text_files_fts MATCH ? ORDER BY text_files_fts.rank LIMIT ?
\* raised: the engine rejected the MATCH argument
ExecuteMatch(t, f, match, limit) ==
    LET parsed == ParseQuery(match)
    IN  IF parsed.err THEN [raised |-> TRUE, rows |-> <<>>]
        ELSE LET joined == {e \in f : ExprMatches(e, parsed.ors) /\ e.rowid \in DOMAIN t}
                 rank == [e \in joined |-> RankOf(e, parsed.ors)]
                 ordered == OrderByRank(joined, rank)
                 rows == [n \in 1..Len(ordered) |->
                             [filename |-> t[ordered[n].rowid].filename,
                              filepath |-> t[ordered[n].rowid].filepath,
                              content |-> t[ordered[n].rowid].content,
                              rank |-> rank[ordered[n]]]]
             IN  [raised |-> FALSE, rows |-> SubSeq(rows, 1, Min(limit, Len(rows)))]

CanRead(filepath) == filepath \in DOMAIN disk /\ filepath \notin unreadable

\* load_full_content: the text of the file, the empty string when open() raises
LoadFullContent(filepath) == IF CanRead(filepath) THEN disk[filepath] ELSE <<>>

FullResults_dropUnread(rows) ==
    LET kept == SelectSeq(rows, LAMBDA r : CanRead(r.filepath))
    IN  [n \in 1..Len(kept) |->
            [filename |-> kept[n].filename, filepath |-> kept[n].filepath,
             content |-> LoadFullContent(kept[n].filepath), rank |-> kept[n].rank]]
\* full_results: each row with its content replaced by load_full_content
FullResults(rows) ==
    [n \in 1..Len(rows) |->
        [filename |-> rows[n].filename, filepath |-> rows[n].filepath,
         content |-> LoadFullContent(rows[n].filepath), rank |-> rows[n].rank]]

\* the locals of the loop that builds full_results
CliHits(rows) ==
    [n \in 1..Len(rows) |->
        [sample_content |-> rows[n].content,
         full_content |-> LoadFullContent(rows[n].filepath)]]

\* what a search method of TextSearchDatabase does once its MATCH argument is
\* built: the statement runs on self.conn, an engine error leaves the method
\* as an exception, and the rows are reloaded
CliRun(op, scope, query, limit) ==
    LET match == FtsQueryOf(scope, query)
        r == ExecuteMatch(tf, fts, match, limit)
    IN  /\ q_op' = op
        /\ q_query' = query
        /\ q_type' = scope
        /\ q_limit' = limit
        /\ q_window' = 0
        /\ fts_query' = match
        /\ q_raised' = r.raised
        /\ results' = FullResults(r.rows)
        /\ hits' = CliHits(r.rows)

\* TextSearchDatabase.search: content and filename
Search(query, limit) ==
    /\ q_op = "none"
    /\ pc \in {"idle", "done"}
    /\ CliRun("search", "both", query, limit)
    /\ UNCHANGED <<storeVars, diskVars, indexVars, webVars>>

SearchContentOnly(query, limit) ==
    /\ q_op = "none"
    /\ pc \in {"idle", "done"}
    /\ CliRun("search_content_only", "content", query, limit)
    /\ UNCHANGED <<storeVars, diskVars, indexVars, webVars>>

SearchFilenameOnly(query, limit) ==
    /\ q_op = "none"
    /\ pc \in {"idle", "done"}
    /\ CliRun("search_filename_only", "filename", query, limit)
    /\ UNCHANGED <<storeVars, diskVars, indexVars, webVars>>

\* ------------------------------------------------------ snippet and highlight
Ellipsis == <<".", ".", ".">>
HlOpen == "<span class=\"highlight\">"
HlClose == "</span>"
PreviewLen == 1000
WebLimit == 10000
DefaultLimit == 10000

\* re.compile(re.escape(query), re.IGNORECASE) matches at 0-based offset at
MatchesAt(text, query, at) ==
    /\ at + Len(query) <= Len(text)
    /\ LowerText(SubSeq(text, at + 1, at + Len(query))) = LowerText(query)

\* start of the first match at or after offset at, -1 when there is none
RECURSIVE FindFrom(_, _, _)
FindFrom(text, query, at) ==
    IF at + Len(query) > Len(text) THEN 0 - 1
    ELSE IF MatchesAt(text, query, at) THEN at
    ELSE FindFrom(text, query, at + 1)

SnippetStart_unclipped(match_start, snippet_length) == match_start
\* start = max(0, match.start() - snippet_length)
SnippetStart(match_start, snippet_length) == Max(0, match_start - snippet_length)

\* end = min(len(full_content), match.end() + snippet_length)
SnippetEnd(full_content, match_end, snippet_length) ==
    Min(Len(full_content), match_end + snippet_length)

ExtractSnippet_oneWindow(full_content, query, snippet_length) ==
    LET m == FindFrom(full_content, query, 0)
    IN  IF m >= 0
        THEN LET start == SnippetStart(m, snippet_length)
                 end == SnippetEnd(full_content, m + Len(query), snippet_length)
             IN  [found |-> TRUE,
                  snippet |-> (IF start > 0 THEN Ellipsis ELSE <<>>)
                              \o Slice(full_content, start, end)
                              \o (IF end < Len(full_content) THEN Ellipsis ELSE <<>>)]
        ELSE [found |-> FALSE,
              snippet |-> Slice(full_content, 0, snippet_length)
                          \o (IF Len(full_content) > snippet_length
                              THEN Ellipsis ELSE <<>>)]
\* the snippet before highlighting: around the first match when there is
\* one, else the first 2 * snippet_length characters
ExtractSnippet(full_content, query, snippet_length) ==
    LET m == FindFrom(full_content, query, 0)
    IN  IF m >= 0
        THEN LET start == SnippetStart(m, snippet_length)
                 end == SnippetEnd(full_content, m + Len(query), snippet_length)
             IN  [found |-> TRUE,
                  snippet |-> (IF start > 0 THEN Ellipsis ELSE <<>>)
                              \o Slice(full_content, start, end)
                              \o (IF end < Len(full_content) THEN Ellipsis ELSE <<>>)]
        ELSE [found |-> FALSE,
              snippet |-> Slice(full_content, 0, snippet_length * 2)
                          \o (IF Len(full_content) > snippet_length * 2
                              THEN Ellipsis ELSE <<>>)]

RECURSIVE HighlightFrom_queryCase(_, _, _)
HighlightFrom_queryCase(snippet, query, at) ==
    IF at >= Len(snippet) THEN <<>>
    ELSE IF MatchesAt(snippet, query, at)
         THEN <<HlOpen>> \o query \o <<HlClose>>
              \o HighlightFrom_queryCase(snippet, query, at + Len(query))
         ELSE <<snippet[at + 1]>> \o HighlightFrom_queryCase(snippet, query, at + 1)
\* re.sub(query_regex, '<span class="highlight">\g<0></span>', snippet,
\* flags=re.IGNORECASE) for a non-empty query; a marker is one element
RECURSIVE HighlightFrom(_, _, _)
HighlightFrom(snippet, query, at) ==
    IF at >= Len(snippet) THEN <<>>
    ELSE IF MatchesAt(snippet, query, at)
         THEN <<HlOpen>> \o SubSeq(snippet, at + 1, at + Len(query)) \o <<HlClose>>
              \o HighlightFrom(snippet, query, at + Len(query))
         ELSE <<snippet[at + 1]>> \o HighlightFrom(snippet, query, at + 1)
Highlight_queryCase(snippet, query) == HighlightFrom_queryCase(snippet, query, 0)
Highlight(snippet, query) == HighlightFrom(snippet, query, 0)

\* full_content[:1000] + ("..." if len(full_content) > 1000 else "")
ContentPreview(full_content) ==
    Slice(full_content, 0, PreviewLen)
    \o (IF Len(full_content) > PreviewLen THEN Ellipsis ELSE <<>>)

\* the file's text, the record's sample when open() raises
WebFullContent(filepath, db_content) ==
    IF CanRead(filepath) THEN disk[filepath] ELSE db_content

\* one pass of the loop over rows: the result appended
WebResult(row, query, snippet_length) ==
    LET full_content == WebFullContent(row.filepath, row.content)
    IN  [file_path |-> row.filepath,
         file_name |-> row.filename,
         snippet |-> Highlight(ExtractSnippet(full_content, query, snippet_length).snippet,
                               query),
         rank |-> row.rank,
         content_preview |-> ContentPreview(full_content)]

\* the locals of that pass
WebHit(row, query, snippet_length) ==
    LET full_content == WebFullContent(row.filepath, row.content)
        x == ExtractSnippet(full_content, query, snippet_length)
    IN  [db_content |-> row.content, full_content |-> full_content,
         found |-> x.found, snippet |-> x.snippet]

WebScope_filenameElse(search_type) ==
    CASE search_type = "content" -> "content"
      [] search_type = "filename" -> "filename"
      [] search_type = "all" -> "both"
      [] OTHER -> "filename"
\* the branch search_type selects; anything unknown is content
WebScope(search_type) ==
    CASE search_type = "content" -> "content"
      [] search_type = "filename" -> "filename"
      [] search_type = "all" -> "both"
      [] OTHER -> "content"

SearchTypes == {"content", "filename", "all", "other"}

\* search_database: its own connection sees the committed store; whatever is
\* raised inside is caught and the empty list returned
SearchDatabase(query, snippet_length, search_type) ==
    LET match == FtsQueryOf(WebScope(search_type), query)
        r == ExecuteMatch(dtf, dfts, match, WebLimit)
    IN  /\ q_op = "none"
        /\ pc \in {"idle", "done"}
        /\ q_op' = "search_database"
        /\ q_query' = query
        /\ q_type' = search_type
        /\ q_limit' = WebLimit
        /\ q_window' = snippet_length
        /\ fts_query' = match
        /\ q_raised' = FALSE
        /\ results' = [n \in 1..Len(r.rows) |-> WebResult(r.rows[n], query, snippet_length)]
        /\ hits' = [n \in 1..Len(r.rows) |-> WebHit(r.rows[n], query, snippet_length)]
        /\ UNCHANGED <<storeVars, diskVars, indexVars, webVars>>

\* the caller has printed or sent the results and is ready for a next query
QueryDone ==
    /\ q_op # "none"
    /\ q_op' = "none"
    /\ q_query' = <<>>
    /\ q_type' = "none"
    /\ q_limit' = 0
    /\ q_window' = 0
    /\ fts_query' = <<>>
    /\ q_raised' = FALSE
    /\ results' = <<>>
    /\ hits' = <<>>
    /\ resp' = NoResponse
    /\ UNCHANGED <<storeVars, diskVars, indexVars, conns, opened, req>>

\* a file of the corpus is moved or deleted after indexing
DiskRemove(filepath) ==
    /\ q_op = "none"
    /\ filepath \in DOMAIN disk
    /\ filepath \notin unreadable
    /\ unreadable' = unreadable \cup {filepath}
    /\ UNCHANGED <<storeVars, disk, indexVars, queryVars, webVars>>

\* all texts over chars of length lo..hi
TextsOver(chars, lo, hi) ==
    UNION {[1..n -> chars] : n \in lo..hi}

QueryChars == {"a", "b", "A", " ", Quote}
Queries == TextsOver(QueryChars, 1, MaxQueryLen)
Limits == 0..MaxLimit \cup {DefaultLimit}
Windows == 0..MaxWindow

\* the table after index_text_files has run over the first n documents
RECURSIVE IndexedTable(_, _)
IndexedTable(n, sample_size) ==
    IF n = 0 THEN EmptyTable
    ELSE InsertRow(IndexedTable(n - 1, sample_size), Basename(PathOf(n)), PathOf(n),
                   Slice(TextOf(n), 0, sample_size))

\* the corpus has been indexed and committed; queries follow
InitQuery ==
    /\ \E size \in SampleSizes :
          /\ tf = IndexedTable(MaxFiles, size)
          /\ content_sample_size = size
    /\ fts = {FtsEntry(tf[id]) : id \in DOMAIN tf}
    /\ dtf = tf
    /\ dfts = fts
    /\ pending = NoTrigger
    /\ disk = InitialDisk
    /\ unreadable = {}
    /\ pc = "done"
    /\ txt_files = [k \in 1..MaxFiles |-> PathOf(k)]
    /\ batch_size = MaxBatch
    /\ i = CeilDiv(MaxFiles, MaxBatch) * MaxBatch
    /\ j = MaxFiles
    /\ commits = CeilDiv(MaxFiles, MaxBatch)
    /\ readFailed = {}
    /\ insertFailed = {}
    /\ ret = <<>>
    /\ reported = MaxFiles
    /\ runs = 1
    /\ IdleQuery
    /\ IdleWeb

NextQuery ==
    \/ \E query \in Queries, limit \in Limits : Search(query, limit)
    \/ \E query \in Queries, limit \in Limits : SearchContentOnly(query, limit)
    \/ \E query \in Queries, limit \in Limits : SearchFilenameOnly(query, limit)
    \/ \E query \in Queries, w \in Windows, st \in SearchTypes :
          SearchDatabase(query, w, st)
    \/ QueryDone

\* queries against the indexed corpus, every file still in place
SpecQuery == InitQuery /\ [][NextQuery]_vars

ReloadQueries == TextsOver(QueryChars, 1, MaxReloadLen)

NextReload ==
    \/ \E p \in CorpusPaths : DiskRemove(p)
    \/ \E query \in ReloadQueries, limit \in Limits : Search(query, limit)
    \/ \E query \in ReloadQueries, limit \in Limits : SearchContentOnly(query, limit)
    \/ \E query \in ReloadQueries, limit \in Limits : SearchFilenameOnly(query, limit)
    \/ \E query \in ReloadQueries, w \in Windows, st \in SearchTypes :
          SearchDatabase(query, w, st)
    \/ QueryDone

\* queries against the indexed corpus while files disappear from the disk
SpecReload == InitQuery /\ [][NextReload]_vars

SnippetChars == {"a", "A", "b"}
SnippetTexts == TextsOver(SnippetChars, 0, MaxTextLen)
SnippetQueries == TextsOver(SnippetChars, 1, MaxSnippetQuery)

\* one pass of the loop of search_database over the row of the first
\* document, for a query the engine matched against the indexed sample
SnippetPass(query, snippet_length) ==
    /\ q_op = "none"
    /\ q_op' = "snippet_pass"
    /\ q_query' = query
    /\ q_type' = "content"
    /\ q_limit' = WebLimit
    /\ q_window' = snippet_length
    /\ fts_query' = FtsQueryOf("content", query)
    /\ q_raised' = FALSE
    /\ LET row == [filename |-> dtf[1].filename, filepath |-> dtf[1].filepath,
                   content |-> dtf[1].content, rank |-> 0]
       IN  /\ results' = <<WebResult(row, query, snippet_length)>>
           /\ hits' = <<WebHit(row, query, snippet_length)>>
    /\ UNCHANGED <<storeVars, diskVars, indexVars, webVars>>

\* the first document was indexed and its file has since been rewritten
InitSnippet ==
    /\ tf = IndexedTable(1, DefaultSampleSize)
    /\ content_sample_size = DefaultSampleSize
    /\ fts = {FtsEntry(tf[id]) : id \in DOMAIN tf}
    /\ dtf = tf
    /\ dfts = fts
    /\ pending = NoTrigger
    /\ \E text \in SnippetTexts : disk = [InitialDisk EXCEPT ![PathOf(1)] = text]
    /\ unreadable = {}
    /\ pc = "done"
    /\ txt_files = <<PathOf(1)>>
    /\ batch_size = 1
    /\ i = 1
    /\ j = 1
    /\ commits = 1
    /\ readFailed = {}
    /\ insertFailed = {}
    /\ ret = <<>>
    /\ reported = 1
    /\ runs = 1
    /\ IdleQuery
    /\ IdleWeb

NextSnippet ==
    \/ \E query \in SnippetQueries, w \in 0..MaxSnippetWindow : SnippetPass(query, w)
    \/ QueryDone

SpecSnippet == InitSnippet /\ [][NextSnippet]_vars

\* ------------------------------------------------------------------- claims
IsWeb == q_op = "search_database"
ResultPath(n) == IF IsWeb THEN results[n].file_path ELSE results[n].filepath
ResultPaths == {ResultPath(n) : n \in 1..Len(results)}

\* the content the operation used for the n-th hit
ContentUsed(n) == IF IsWeb THEN hits[n].full_content ELSE results[n].content

\* the sample the committed record of filepath holds
SampleOf(filepath) ==
    dtf[CHOOSE id \in DOMAIN dtf : dtf[id].filepath = filepath].content

\* the rows the engine gives for the MATCH argument and limit of the query
EngineRows == ExecuteMatch(dtf, dfts, fts_query, q_limit).rows

\* C3: on every query surface a hit whose file can no longer be read is
\* shown with the indexed sample of its record, and the query still returns
\* it together with all other hits.
StaleHitsUseSample ==
    q_op # "none" =>
        /\ Len(results) = Len(EngineRows)
        /\ \A n \in 1..Len(results) :
              ResultPath(n) \in unreadable => ContentUsed(n) = SampleOf(ResultPath(n))

\* the scope a query operation searches
ScopeOfOp ==
    CASE q_op = "search" -> "both"
      [] q_op = "search_content_only" -> "content"
      [] q_op = "search_filename_only" -> "filename"
      [] q_op = "search_database" /\ q_type = "filename" -> "filename"
      [] q_op = "search_database" /\ q_type = "all" -> "both"
      [] OTHER -> "content"

\* the term of a query: with a space, every quote doubled and the whole in
\* one pair of quotes; without, the query itself
ExpectedTerm(query) ==
    IF \E n \in DOMAIN query : query[n] = " "
    THEN <<"\"">>
         \o Flatten([n \in 1..Len(query) |->
                       IF query[n] = "\"" THEN <<"\"", "\"">> ELSE <<query[n]>>])
         \o <<"\"">>
    ELSE query

\* C7: the term handed to the engine is the phrase-quoted query when the
\* query has a space and the raw query when it has none, prefixed by the
\* field name of the scope (both fields joined by OR for scope both).
TermIsPhraseQuoted ==
    q_op # "none" =>
        LET term == ExpectedTerm(q_query)
            content == <<"c", "o", "n", "t", "e", "n", "t", ":">> \o term
            filename == <<"f", "i", "l", "e", "n", "a", "m", "e", ":">> \o term
        IN  fts_query = CASE ScopeOfOp = "content" -> content
                          [] ScopeOfOp = "filename" -> filename
                          [] ScopeOfOp = "both" ->
                                content \o <<" ", "O", "R", " ">> \o filename

\* the web query ran with scope both for a query with a space and a quote
C7Witness ==
    /\ q_op = "search_database"
    /\ q_type = "all"
    /\ \E n \in DOMAIN q_query : q_query[n] = " "
    /\ \E n \in DOMAIN q_query : q_query[n] = "\""
    /\ Len(fts_query) > 2 * Len(q_query) + 20

\* what the engine does with the query under one scope
ScopeRun(scope) == ExecuteMatch(dtf, dfts, FtsQueryOf(scope, q_query), q_limit)
ScopePaths(scope) ==
    {ScopeRun(scope).rows[n].filepath : n \in 1..Len(ScopeRun(scope).rows)}

BelowLimit ==
    /\ Len(results) < q_limit
    /\ Len(ScopeRun("content").rows) < q_limit
    /\ Len(ScopeRun("filename").rows) < q_limit

BothEqualsUnion ==
    /\ fts_query = FieldTerm(ColContent, q_query) \o <<" ", "O", "R", " ">>
                   \o FieldTerm(ColFilename, q_query)
    /\ ResultPaths = ScopePaths("content") \cup ScopePaths("filename")

\* C8 as stated: for every query, below the limit, the documents returned
\* under scope both are those returned under scope content together with
\* those returned under scope filename; the engine query is the OR of the
\* two field terms.
BothIsUnion ==
    q_op # "none" /\ ScopeOfOp = "both" /\ BelowLimit => BothEqualsUnion

\* C8 as amended: ... for every query that the engine accepts under scope
\* content and under scope filename ...
BothIsUnionWhenAccepted ==
    /\ q_op # "none"
    /\ ScopeOfOp = "both"
    /\ BelowLimit
    /\ ~ScopeRun("content").raised
    /\ ~ScopeRun("filename").raised
    => BothEqualsUnion /\ ~q_raised

\* scope both returned documents that only the content matched together with
\* documents that only the filename matched
C8Witness ==
    /\ q_op = "search"
    /\ BelowLimit
    /\ ~ScopeRun("content").raised
    /\ ScopePaths("content") \ ScopePaths("filename") # {}
    /\ ScopePaths("filename") \ ScopePaths("content") # {}
    /\ ResultPaths = ScopePaths("content") \cup ScopePaths("filename")

\* C9: a query returns at most limit results, in non-decreasing order of
\* rank; reloading the content neither reorders, drops nor duplicates hits.
ResultsCappedInRankOrder ==
    q_op # "none" =>
        /\ Len(results) <= q_limit
        /\ \A m, n \in 1..Len(results) : m < n => results[m].rank <= results[n].rank
        /\ \A m, n \in 1..Len(results) : m # n => ResultPath(m) # ResultPath(n)
        /\ Len(results) = Len(EngineRows)
        /\ \A n \in 1..Len(results) :
              /\ ResultPath(n) = EngineRows[n].filepath
              /\ results[n].rank = EngineRows[n].rank

\* the limit cut the result short of a matching document with a smaller row
\* id, and the file of the best hit could not be read
C9Witness ==
    /\ q_op = "search"
    /\ q_limit = 2
    /\ Len(results) = 2
    /\ results[1].filepath = PathOf(2)
    /\ PathOf(2) \in unreadable
    /\ PathOf(1) \notin ResultPaths
    /\ PathOf(1) \in {e.filepath : e \in {x \in dfts : ExprMatches(x, ParseQuery(fts_query).ors)}}

\* the text, the query and the window of a snippet pass
SnText == hits[1].full_content
SnFirst ==
    CHOOSE at \in 0..Len(SnText) :
        /\ at + Len(q_query) <= Len(SnText)
        /\ \A k \in 1..Len(q_query) : Lower(SnText[at + k]) = Lower(q_query[k])
        /\ \A before \in 0..(at - 1) :
              \E k \in 1..Len(q_query) : Lower(SnText[before + k]) # Lower(q_query[k])
SnOccurs ==
    \E at \in 0..(Len(SnText) - Len(q_query)) :
        \A k \in 1..Len(q_query) : Lower(SnText[at + k]) = Lower(q_query[k])

\* C10: when the query occurs, case-insensitively, in the text, the snippet is
\* the text from max(0, match_start - window) to min(len, match_end + window)
\* with an ellipsis in front exactly when the start is clipped and one behind
\* exactly when the end is clipped, and it holds the matched text in full.
SnippetAroundFirstMatch ==
    q_op = "snippet_pass" /\ SnOccurs =>
        LET start == IF SnFirst - q_window > 0 THEN SnFirst - q_window ELSE 0
            stop == IF SnFirst + Len(q_query) + q_window < Len(SnText)
                    THEN SnFirst + Len(q_query) + q_window ELSE Len(SnText)
            body == [n \in 1..(stop - start) |-> SnText[start + n]]
            pre == IF start > 0 THEN 3 ELSE 0
            snippet == hits[1].snippet
        IN  /\ hits[1].found
            /\ Len(snippet) = pre + Len(body) + (IF stop < Len(SnText) THEN 3 ELSE 0)
            /\ \A n \in 1..Len(snippet) :
                  snippet[n] = IF n <= pre \/ n > pre + Len(body) THEN "."
                               ELSE body[n - pre]
            /\ \E at \in 0..(Len(snippet) - Len(q_query)) :
                  \A k \in 1..Len(q_query) : snippet[at + k] = SnText[SnFirst + k]

\* a snippet cut at both ends around a match found in another letter case
C10Witness ==
    /\ q_op = "snippet_pass"
    /\ SnOccurs
    /\ SnFirst > q_window
    /\ q_window > 0
    /\ SnFirst + Len(q_query) + q_window < Len(SnText)
    /\ \E k \in 1..Len(q_query) : SnText[SnFirst + k] # q_query[k]

\* ------------------------------------------------------------ image serving
\* a character for which str.isdigit() holds and which int() does not take:
\* SUPERSCRIPT TWO
SuperscriptTwo == "sup2"

\* str.isdigit(): not empty, and every character a digit
IsDigit(s) ==
    /\ Len(s) > 0
    /\ \A k \in 1..Len(s) : s[k] \in Range(Digits) \cup {SuperscriptTwo}

RECURSIVE DecimalValue(_)
DecimalValue(s) ==
    IF s = <<>> THEN 0
    ELSE 10 * DecimalValue(SubSeq(s, 1, Len(s) - 1))
         + ((CHOOSE n \in 1..10 : Digits[n] = s[Len(s)]) - 1)

\* int(s) for a string s with s.isdigit(): ValueError unless every character
\* is a decimal digit
IntOf(s) ==
    IF \A k \in 1..Len(s) : s[k] \in Range(Digits)
    THEN [raised |-> FALSE, value |-> DecimalValue(s)]
    ELSE [raised |-> TRUE, value |-> 0]

\* '..' in filename
HasDotDot(filename) ==
    \E k \in 1..(Len(filename) - 1) : filename[k] = "." /\ filename[k + 1] = "."

StartsWithSlash(p) == Len(p) > 0 /\ p[1] = "/"

\* os.path.join(a, b)
PathJoin(a, b) ==
    IF StartsWithSlash(b) THEN b
    ELSE IF a = <<>> \/ a[Len(a)] = "/" THEN a \o b
    ELSE a \o <<"/">> \o b

\* "/home/jon/Documents/Epstein dump nov 12", kept as one element
ImageRoot == <<"/home/jon/Documents/Epstein dump nov 12">>

\* base_path = f"/home/jon/Documents/Epstein dump nov 12/{dir_num}"
BasePath(dir_num) == ImageRoot \o <<"/">> \o dir_num

\* os.path.exists(full_path) and os.path.isfile(full_path)
IsFile(full_path) == full_path \in DOMAIN disk

FileSent(status, full_path) ==
    [status |-> status, body |-> "file", fs_access |-> TRUE, served |-> full_path]
Refused(status, body, fs_access) ==
    [status |-> status, body |-> body, fs_access |-> fs_access, served |-> <<>>]

\* int(dir_num) raising leaves view_image as an exception: the transport
\* answers 500
\* not dir_num.isdigit() or int(dir_num) < 1 or int(dir_num) > 12
DirNumCheck(dir_num) ==
    IF ~IsDigit(dir_num) THEN "invalid"
    ELSE IF IntOf(dir_num).raised THEN "raise"
    ELSE IF IntOf(dir_num).value < 1 \/ IntOf(dir_num).value > 12 THEN "invalid"
    ELSE "ok"

\* the answer of view_image(dir_num, filename)
ViewImageAnswer(dir_num, filename) ==
    LET full_path == PathJoin(BasePath(dir_num), filename)
    IN  CASE DirNumCheck(dir_num) = "invalid" -> Refused(400, "Invalid directory", FALSE)
          [] DirNumCheck(dir_num) = "raise" -> Refused(500, "ValueError", FALSE)
          [] OTHER ->
                IF HasDotDot(filename) \/ StartsWithSlash(filename)
                THEN Refused(400, "Invalid filename", FALSE)
                ELSE IF IsFile(full_path) THEN FileSent(200, full_path)
                ELSE Refused(404, "File not found", TRUE)

\* GET /view_image/<dir_num>/<filename>
ViewImage(dir_num, filename) ==
    /\ resp = NoResponse
    /\ q_op = "none"
    /\ resp' = [route |-> "view_image", dir_num |-> dir_num, filename |-> filename,
                answer |-> ViewImageAnswer(dir_num, filename)]
    /\ UNCHANGED <<storeVars, diskVars, indexVars, queryVars, conns, opened, req>>

\* the transport has sent the answer
ResponseSent ==
    /\ resp # NoResponse
    /\ q_op = "none"
    /\ resp' = NoResponse
    /\ UNCHANGED <<storeVars, diskVars, indexVars, queryVars, conns, opened, req>>

PhotoJpg == <<"p", "h", "o", "t", "o", ".", "j", "p", "g">>
EtcPasswd == <<"/", "e", "t", "c", "/", "p", "a", "s", "s", "w", "d">>
UpUpEtcPasswd == <<".", ".", "/", ".", ".">> \o EtcPasswd

\* "001" .. "012"
PaddedTokens ==
    {<<"0", "0", Digits[n + 1]>> : n \in 1..9} \cup {<<"0", "1", Digits[n + 1]>> : n \in 0..2}
DirChars == {"0", "1", "2", "3"}
DirTokens ==
    TextsOver(DirChars, 1, MaxTokenLen) \cup PaddedTokens
    \cup {<<"0", "0", "0">>, <<"a", "b", "c">>, <<"-", "1">>,
          <<SuperscriptTwo>>, <<"1", SuperscriptTwo>>}
NameChars == {".", "/", "p"}
ImageNames ==
    TextsOver(NameChars, 1, MaxNameLen) \cup {PhotoJpg, EtcPasswd, UpUpEtcPasswd}

\* image files that may be on the disk
ImageFiles ==
    {PathJoin(BasePath(<<"0", "0", "1">>), PhotoJpg), PathJoin(BasePath(<<"1", "2">>), <<"p">>)}
DiskWith(files) ==
    [p \in CorpusPaths \cup files |-> IF p \in CorpusPaths THEN InitialDisk[p] ELSE <<"i", "m", "g">>]

\* the web application is up; some of the image files exist
InitImage ==
    /\ InitStoreEmpty
    /\ \E files \in SUBSET ImageFiles : disk = DiskWith(files)
    /\ unreadable = {}
    /\ IdleIndex
    /\ IdleQuery
    /\ IdleWeb

NextImage ==
    \/ \E dir_num \in DirTokens, filename \in ImageNames : ViewImage(dir_num, filename)
    \/ ResponseSent

SpecImage == InitImage /\ [][NextImage]_vars

\* a token the claim accepts: decimal digits denoting 1 to 12
TokenAccepted(dir_num) ==
    /\ Len(dir_num) > 0
    /\ \A k \in 1..Len(dir_num) : dir_num[k] \in {"0", "1", "2", "3", "4", "5", "6", "7", "8", "9"}
    /\ DecimalValue(dir_num) >= 1
    /\ DecimalValue(dir_num) <= 12
NameAccepted(filename) ==
    /\ ~\E k \in 1..(Len(filename) - 1) : <<filename[k], filename[k + 1]>> = <<".", ".">>
    /\ ~(Len(filename) > 0 /\ filename[1] = "/")

\* C13: a file is served only when the directory token and the filename are
\* accepted; "000", "13", "abc", "-1" are rejected and "001".."012" accepted;
\* "../../etc/passwd" and "/etc/passwd" are rejected and "photo.jpg" accepted;
\* every rejection answers 400 before any file-system access, and an accepted
\* request for a missing file answers 404.
ImageRequestsValidated ==
    resp.route = "view_image" =>
        LET accepted == TokenAccepted(resp.dir_num) /\ NameAccepted(resp.filename)
            a == resp.answer
        IN  /\ a.status = 200 => accepted /\ a.served \in DOMAIN disk
            /\ ~accepted => a.status = 400 /\ ~a.fs_access
            /\ accepted => a.status \in {200, 404}
            /\ accepted /\ a.status = 404 =>
                  BasePath(resp.dir_num) \o <<"/">> \o resp.filename \notin DOMAIN disk
            /\ resp.dir_num \in {<<"0", "0", "0">>, <<"1", "3">>, <<"a", "b", "c">>, <<"-", "1">>}
                  => a.status = 400
            /\ resp.filename \in {UpUpEtcPasswd, EtcPasswd} => a.status = 400
            /\ resp.dir_num \in PaddedTokens /\ resp.filename = PhotoJpg => accepted

\* ----------------------------------------------------------- POST /search
\* values of the fields of request.json; Absent: the key is not in the body
Absent == [t |-> "absent"]
JNull == [t |-> "null"]
JStr(s) == [t |-> "str", v |-> s]
JInt(n) == [t |-> "int", v |-> n]

\* data.get(key, default)
Get(value, default) == IF value = Absent THEN default ELSE value

\* int(x): the number itself, the value of a string of decimal digits,
\* ValueError for another string, TypeError for None
PyInt(x) ==
    CASE x.t = "int" -> [raised |-> FALSE, value |-> x.v]
      [] x.t = "str" ->
            IF Len(x.v) > 0 /\ \A k \in 1..Len(x.v) : x.v[k] \in Range(Digits)
            THEN [raised |-> FALSE, value |-> DecimalValue(x.v)]
            ELSE [raised |-> TRUE, value |-> 0]
      [] OTHER -> [raised |-> TRUE, value |-> 0]

\* not x
Falsy(x) ==
    CASE x.t = "str" -> x.v = <<>>
      [] x.t = "int" -> x.v = 0
      [] OTHER -> TRUE

DefaultSnippetLength == 1000

\* the search_type search_database is called with
TypeArg(x) == IF x.t = "str" THEN x.v ELSE "None"

\* the three locals of search() once data is read: snippet_length is
\* converted before query is looked at
SearchArgs(data) ==
    [query |-> Get(data.query, JStr(<<>>)),
     snippet_length |-> PyInt(Get(data.snippet_length, JInt(DefaultSnippetLength))),
     search_type |-> Get(data.search_type, JStr("content"))]

\* POST /search with the JSON object data: int() raising ends the request as
\* an exception (500), an empty query is answered 400, and otherwise
\* search_database runs and its results are sent
PostSearch(data) ==
    LET args == SearchArgs(data)
        query == args.query.v
        snippet_length == args.snippet_length.value
        search_type == TypeArg(args.search_type)
        match == FtsQueryOf(WebScope(search_type), query)
        r == ExecuteMatch(dtf, dfts, match, WebLimit)
    IN  /\ q_op = "none"
        /\ resp = NoResponse
        /\ pc \in {"idle", "done"}
        /\ IF args.snippet_length.raised
           THEN /\ resp' = [route |-> "search", data |-> data, status |-> 500,
                            body |-> [error |-> "exception"], searched |-> FALSE]
                /\ UNCHANGED queryVars
           ELSE IF Falsy(args.query)
           THEN /\ resp' = [route |-> "search", data |-> data, status |-> 400,
                            body |-> [error |-> "Query is required"], searched |-> FALSE]
                /\ UNCHANGED queryVars
           ELSE /\ q_op' = "search_database"
                /\ q_query' = query
                /\ q_type' = search_type
                /\ q_limit' = WebLimit
                /\ q_window' = snippet_length
                /\ fts_query' = match
                /\ q_raised' = FALSE
                /\ results' = [n \in 1..Len(r.rows) |->
                                  WebResult(r.rows[n], query, snippet_length)]
                /\ hits' = [n \in 1..Len(r.rows) |->
                               WebHit(r.rows[n], query, snippet_length)]
                /\ resp' = [route |-> "search", data |-> data, status |-> 200,
                            body |-> [query |-> query, count |-> Len(r.rows),
                                      search_type |-> search_type],
                            searched |-> TRUE]
        /\ UNCHANGED <<storeVars, diskVars, indexVars, conns, opened, req>>

BodyQueries == {Absent} \cup {JStr(s) : s \in TextsOver(QueryChars, 0, MaxBodyQueryLen)}
BodySnippetLengths ==
    {Absent, JNull, JStr(<<"1">>), JStr(<<"a", "b", "c">>)} \cup {JInt(w) : w \in Windows}
BodySearchTypes == {Absent, JNull} \cup {JStr(st) : st \in SearchTypes}
Bodies ==
    [query : BodyQueries, snippet_length : BodySnippetLengths, search_type : BodySearchTypes]

NextRoute ==
    \/ \E data \in Bodies : PostSearch(data)
    \/ \E p \in CorpusPaths : DiskRemove(p)
    \/ ResponseSent
    \/ QueryDone

\* requests to POST /search against the indexed corpus
SpecRoute == InitQuery /\ [][NextRoute]_vars

\* C14: POST /search with a missing or empty query answers 400 with an error
\* body, whatever the other fields hold, and neither runs a search nor opens
\* the store.
EmptyQueryAnswers400 ==
    resp.route = "search" /\ resp.data.query \in {Absent, JStr(<<>>)} =>
        /\ resp.status = 400
        /\ "error" \in DOMAIN resp.body
        /\ ~resp.searched
        /\ q_op = "none"

\* ------------------------------------------------ index a corpus, then query
ClintonText == <<"C", "l", "i", "n", "t", "o", "n", " ", "f", "l", "e", "w", " ", "t", "o", " ", "P", "a", "r", "i", "s">>
ParisText == <<"P", "a", "r", "i", "s", " ", "i", "s", " ", "l", "o", "v", "e", "l", "y">>
ScenarioDisk == (PathOf(1) :> ClintonText) @@ (PathOf(2) :> ParisText)

DocChars == {"a", " ", Quote}
\* a corpus whose first document holds text
DiskOfText(text) == (PathOf(1) :> text) @@ (PathOf(2) :> DocTexts[1])
Corpora == {ScenarioDisk} \cup {DiskOfText(text) : text \in TextsOver(DocChars, 1, MaxDocLen)}

ScenarioQueries ==
    {<<"P", "a", "r", "i", "s">>,
     <<"C", "l", "i", "n", "t", "o", "n", " ", "f", "l", "e", "w">>,
     <<"f", "l", "e", "w", " ", "C", "l", "i", "n", "t", "o", "n">>,
     <<"p", "a", "r", "i", "s">>,
     <<"t", "o">>,
     <<"P", "a", "r">>}

\* index_text_files is called on a new store for a directory of two files
InitCorpus ==
    /\ InitStoreEmpty
    /\ disk \in Corpora
    /\ unreadable = {}
    /\ pc = "loop"
    /\ txt_files = <<PathOf(1), PathOf(2)>>
    /\ batch_size \in 1..MaxBatch
    /\ content_sample_size \in SampleSizes
    /\ i = 0
    /\ j = 0
    /\ commits = 0
    /\ readFailed = {}
    /\ insertFailed = {}
    /\ ret = <<>>
    /\ reported = 0
    /\ runs = 1
    /\ IdleQuery
    /\ IdleWeb

\* the run, then content queries: those of the scenario and the full text of
\* each file
NextCorpus ==
    \/ IndexFile
    \/ IndexCommit
    \/ IndexFinish
    \/ \E query \in ScenarioQueries \cup {disk[p] : p \in DOMAIN disk} :
          SearchContentOnly(query, DefaultLimit)
    \/ QueryDone

SpecCorpus == InitCorpus /\ [][NextCorpus]_vars

\* the committed records whose file holds exactly the query
RecordsOfText == {id \in DOMAIN dtf : disk[dtf[id].filepath] = q_query}

\* C15 as stated: a content query whose text is the exact full text of an
\* indexed document returns that document, whatever its length relative to
\* sample_size and whether it is one word or several.
FullTextFindsDocument ==
    q_op = "search_content_only" =>
        \A id \in RecordsOfText : dtf[id].filepath \in ResultPaths

\* the text is several words: it has a space and a letter or digit; or it is
\* one word: letters and digits only, and not a keyword of the engine
SeveralWords(text) ==
    /\ \E n \in 1..Len(text) : text[n] = " "
    /\ \E n \in 1..Len(text) : IsAlnum(text[n])
OneWord(text) ==
    /\ text # <<>>
    /\ \A n \in 1..Len(text) : IsAlnum(text[n])
    /\ text \notin {<<"O", "R">>, <<"A", "N", "D">>, <<"N", "O", "T">>}

\* C15 as amended: ... of an indexed document that is no longer than
\* sample_size and is either several words or one word of letters and
\* digits, is accepted by the engine and returns that document.
FullTextFindsSampledDocument ==
    q_op = "search_content_only" =>
        \A id \in RecordsOfText :
            /\ Len(q_query) <= content_sample_size
            /\ SeveralWords(q_query) \/ OneWord(q_query)
            => ~q_raised /\ dtf[id].filepath \in ResultPaths

\* the full text of a document of several words, no longer than the sample,
\* was queried and the document returned
C15Witness ==
    /\ q_op = "search_content_only"
    /\ q_query = disk[PathOf(1)]
    /\ \E n \in 1..Len(q_query) : q_query[n] = " "
    /\ Len(Tokenize(q_query)) >= 2
    /\ Len(q_query) <= content_sample_size
    /\ \E id \in DOMAIN dtf : dtf[id].filepath = PathOf(1)
    /\ PathOf(1) \in ResultPaths

\* the words of the indexed text of a committed record
IndexedWords(id) == Tokenize(dtf[id].content)
HoldsWordSequence(toks, words) ==
    \E n \in 0..(Len(toks) - Len(words)) : \A k \in 1..Len(words) : toks[n + k] = words[k]
RecordsWithWord(word) ==
    {id \in DOMAIN dtf : \E n \in 1..Len(IndexedWords(id)) : IndexedWords(id)[n] = word}

IndexAgain_rebuild ==
    /\ pc = "done"
    /\ q_op = "none"
    /\ runs < MaxRuns
    /\ pc' = "loop"
    /\ runs' = runs + 1
    /\ tf' = EmptyTable
    /\ fts' = {}
    /\ i' = 0
    /\ j' = 0
    /\ commits' = 0
    /\ ret' = <<>>
    /\ reported' = 0
    /\ UNCHANGED <<dtf, dfts, pending, diskVars, queryVars, webVars, txt_files, batch_size,
                   content_sample_size, readFailed, insertFailed>>
\* index_text_files is called again for the same directory on the store as it
\* is: glob returns the same files, and the loops start over
IndexAgain ==
    /\ pc = "done"
    /\ q_op = "none"
    /\ runs < MaxRuns
    /\ pc' = "loop"
    /\ runs' = runs + 1
    /\ i' = 0
    /\ j' = 0
    /\ commits' = 0
    /\ ret' = <<>>
    /\ reported' = 0
    /\ UNCHANGED <<storeVars, diskVars, queryVars, webVars, txt_files, batch_size,
                   content_sample_size, readFailed, insertFailed>>

\* index_text_files is called on a new store for a directory of readable files
InitReindex ==
    /\ InitStoreEmpty
    /\ disk = InitialDisk
    /\ unreadable = {}
    /\ pc = "loop"
    /\ \E n \in 0..MaxReindexFiles : txt_files = [k \in 1..n |-> PathOf(k)]
    /\ batch_size \in 1..MaxBatch
    /\ content_sample_size \in SampleSizes
    /\ i = 0
    /\ j = 0
    /\ commits = 0
    /\ readFailed = {}
    /\ insertFailed = {}
    /\ ret = <<>>
    /\ reported = 0
    /\ runs = 1
    /\ IdleQuery
    /\ IdleWeb

NextReindex ==
    \/ IndexFile
    \/ IndexCommit
    \/ IndexFinish
    \/ IndexAgain

SpecReindex == InitReindex /\ [][NextReindex]_vars

\* after runs runs in which no INSERT raised, the store holds runs records
\* for each of the N documents, under ids that are all different
RunsTimesRecords ==
    pc = "done" /\ insertFailed = {} =>
        /\ Cardinality(DOMAIN dtf) = runs * Len(txt_files)
        /\ \A id \in DOMAIN dtf : dtf[id].id = id
        /\ \A k \in 1..Len(txt_files) :
              Cardinality({id \in DOMAIN dtf : dtf[id].filepath = txt_files[k]}) = runs
        /\ Cardinality(dfts) = Cardinality(DOMAIN dtf)

\* a record that is durable stays as it is
RecordsKept ==
    \A id \in DOMAIN dtf : id \in DOMAIN dtf' /\ dtf'[id] = dtf[id]

Finally_returnOnly(open, conn, raised) == IF raised THEN open ELSE open \ {conn}
\* finally: conn.close()
Finally(open, conn, raised) == open \ {conn}

\* conn = sqlite3.connect(DB_PATH); cursor = conn.cursor()
WebConnect(r, query, snippet_length, search_type) ==
    /\ req[r].pc = "idle"
    /\ opened < MaxConnects
    /\ opened' = opened + 1
    /\ conns' = conns \cup {opened + 1}
    /\ req' = [req EXCEPT ![r] =
                  [pc |-> "try", conn |-> opened + 1, query |-> query,
                   snippet_length |-> snippet_length, search_type |-> search_type,
                   raised |-> FALSE, results |-> <<>>]]
    /\ UNCHANGED <<storeVars, diskVars, indexVars, queryVars, resp>>

\* the body of the try: the statement on the request's own connection, which
\* sees the committed store, and the loop over the rows; an exception is
\* caught by except Exception and the empty list is the result
WebTry(r) ==
    /\ req[r].pc = "try"
    /\ LET match == FtsQueryOf(WebScope(req[r].search_type), req[r].query)
           x == ExecuteMatch(dtf, dfts, match, WebLimit)
       IN  req' = [req EXCEPT ![r].pc = "finally",
                              ![r].raised = x.raised,
                              ![r].results =
                                  [n \in 1..Len(x.rows) |->
                                      WebResult(x.rows[n], req[r].query,
                                                req[r].snippet_length)]]
    /\ UNCHANGED <<storeVars, diskVars, indexVars, queryVars, resp, conns, opened>>

\* the finally clause, and search_database returns to search()
WebFinally(r) ==
    /\ req[r].pc = "finally"
    /\ conns' = Finally(conns, req[r].conn, req[r].raised)
    /\ req' = [req EXCEPT ![r].pc = "returned"]
    /\ UNCHANGED <<storeVars, diskVars, indexVars, queryVars, resp, opened>>

\* search() has sent the results; the request is over
WebAnswered(r) ==
    /\ req[r].pc = "returned"
    /\ req' = [req EXCEPT ![r] = IdleRequest]
    /\ UNCHANGED <<storeVars, diskVars, indexVars, queryVars, resp, conns, opened>>

ConcurrentQueries == {<<"b", "b">>, <<Quote>>}
ConcurrentTypes == {"content", "filename"}

NextConcurrent ==
    \/ \E r \in Requests, query \in ConcurrentQueries, st \in ConcurrentTypes :
          WebConnect(r, query, DefaultSnippetLength, st)
    \/ \E r \in Requests : WebTry(r)
    \/ \E r \in Requests : WebFinally(r)
    \/ \E r \in Requests : WebAnswered(r)
    \/ DiskRemove(PathOf(4))

\* concurrent requests against the indexed corpus while the file that the
\* filename query hits disappears
SpecConcurrent == InitQuery /\ [][NextConcurrent]_vars

\* the requests that are inside search_database
Executing == {r \in Requests : req[r].pc \in {"try", "finally"}}

\* C18: every execution of search_database opens a connection of its own
\* and closes it before it returns, on every path; no connection is shared
\* by two executions and none stays open after its execution has ended.
ConnectionsPrivate ==
    /\ \A r \in Executing : req[r].conn \in conns
    /\ \A r1, r2 \in Requests :
          r1 # r2 /\ req[r1].pc # "idle" /\ req[r2].pc # "idle"
              => req[r1].conn # req[r2].conn
    /\ \A r \in Requests : req[r].pc = "returned" => req[r].conn \notin conns
    /\ conns = {req[r].conn : r \in Executing}

\* one execution has returned after the engine rejected its query while
\* another, whose hit is a file that can no longer be read, is still inside
\* with its connection open
C18Witness ==
    \E r1, r2 \in Requests :
        /\ req[r1].pc = "returned"
        /\ req[r1].raised
        /\ req[r2].pc = "finally"
        /\ Len(req[r2].results) >= 1
        /\ req[r2].results[1].file_path \in unreadable
        /\ conns = {req[r2].conn}
        /\ req[r1].conn # req[r2].conn

\* --------------------------------------------- queries on a store in use
CountFiles_commits ==
    /\ q_op = "none"
    /\ pc \in {"idle", "done"}
    /\ q_op' = "count_files"
    /\ results' = <<Cardinality(DOMAIN tf)>>
    /\ dtf' = tf
    /\ dfts' = fts
    /\ UNCHANGED <<tf, fts, pending, diskVars, indexVars, webVars, q_query, q_type,
                   q_limit, q_window, fts_query, q_raised, hits>>
\* count_files: SELECT COUNT(*) FROM text_files on self.conn
CountFiles ==
    /\ q_op = "none"
    /\ pc \in {"idle", "done"}
    /\ q_op' = "count_files"
    /\ results' = <<Cardinality(DOMAIN tf)>>
    /\ UNCHANGED <<storeVars, diskVars, indexVars, webVars, q_query, q_type,
                   q_limit, q_window, fts_query, q_raised, hits>>

FrameQueries == {<<"b">>, <<Quote>>, <<"b", " ", "b">>}

\* records are written through the connection of a TextSearchDatabase and
\* queried, between its statements, through the same connection, and at any
\* moment by the web query through a connection of its own
NextFrame ==
    \/ \E fn \in StoreNames, c \in StoreTexts : StoreInsert(fn, c)
    \/ StoreTrigger
    \/ StoreCommit
    \/ StoreCrash
    \/ \E query \in FrameQueries : pending = NoTrigger /\ Search(query, DefaultLimit)
    \/ \E query \in FrameQueries :
          pending = NoTrigger /\ SearchContentOnly(query, DefaultLimit)
    \/ \E query \in FrameQueries :
          pending = NoTrigger /\ SearchFilenameOnly(query, DefaultLimit)
    \/ pending = NoTrigger /\ CountFiles
    \/ \E query \in FrameQueries, st \in SearchTypes :
          SearchDatabase(query, DefaultSnippetLength, st)
    \/ QueryDone

SpecFrame == InitStore /\ [][NextFrame]_vars

\* a step that starts or ends a query operation
QueryStep == q_op' # q_op

\* C19: no query operation (search, search_content_only,
\* search_filename_only, count_files, search_database) changes the store:
\* the records and the projection, working and committed, are the same
\* before and after it, whatever the query, the scope and the outcome.
QueriesLeaveStore ==
    [][QueryStep => <<tf, fts, dtf, dfts, pending>>' = <<tf, fts, dtf, dfts, pending>>]_vars

\* count_files has counted a record that is not committed yet
C19Witness ==
    /\ q_op = "count_files"
    /\ results = <<2>>
    /\ DOMAIN tf = {1, 2}
    /\ DOMAIN dtf = {1}
    /\ Cardinality(dfts) = 1

\* C11: when the query occurs nowhere, case-insensitively, in the live text,
\* nothing is raised and the snippet is the first 2 * window characters of the
\* text, followed by an ellipsis exactly when the text is longer than that;
\* the hit is still returned as a result.
FallbackWhenAbsent ==
    q_op = "snippet_pass" /\ ~SnOccurs =>
        LET kept == IF 2 * q_window < Len(SnText) THEN 2 * q_window ELSE Len(SnText)
            snippet == hits[1].snippet
        IN  /\ ~q_raised
            /\ ~hits[1].found
            /\ Len(snippet) = kept + (IF Len(SnText) > 2 * q_window THEN 3 ELSE 0)
            /\ \A n \in 1..Len(snippet) :
                  snippet[n] = IF n <= kept THEN SnText[n] ELSE "."
            /\ Len(results) = 1
            /\ results[1].file_path = dtf[1].filepath

\* the query is absent from a text longer than twice a positive window
C11Witness ==
    /\ q_op = "snippet_pass"
    /\ ~SnOccurs
    /\ q_window >= 1
    /\ Len(SnText) > 2 * q_window
    /\ Len(hits[1].snippet) = 2 * q_window + 3

\* the snippet of a pass before and after highlighting
RawSnippet == hits[1].snippet
FinalSnippet == results[1].snippet
IsMarker(x) == x \in {HlOpen, HlClose}
Unmarked(s) == SelectSeq(s, LAMBDA x : ~IsMarker(x))

\* offset in the unmarked text of what follows position p of s
OffsetOf(s, p) == Cardinality({k \in 1..(p - 1) : ~IsMarker(s[k])})

\* offsets of the snippet at which the query occurs, and at which a marker opens
OccStarts ==
    {at \in 0..(Len(RawSnippet) - Len(q_query)) :
        \A k \in 1..Len(q_query) : Lower(RawSnippet[at + k]) = Lower(q_query[k])}
WrappedStarts ==
    {OffsetOf(FinalSnippet, p) : p \in {k \in 1..Len(FinalSnippet) : FinalSnippet[k] = HlOpen}}

\* markers come in pairs around exactly Len(query) characters of text, what
\* they enclose is an occurrence of the query, and without the markers the
\* snippet is what it was, letter case included
OnlyOccurrencesWrapped ==
    /\ \A p \in 1..Len(FinalSnippet) :
          /\ FinalSnippet[p] = HlOpen =>
                /\ p + Len(q_query) + 1 <= Len(FinalSnippet)
                /\ FinalSnippet[p + Len(q_query) + 1] = HlClose
                /\ \A k \in 1..Len(q_query) : ~IsMarker(FinalSnippet[p + k])
          /\ FinalSnippet[p] = HlClose =>
                /\ p - Len(q_query) - 1 >= 1
                /\ FinalSnippet[p - Len(q_query) - 1] = HlOpen
    /\ WrappedStarts \subseteq OccStarts
    /\ Unmarked(FinalSnippet) = RawSnippet

\* C12 as stated: in the final snippet every case-insensitive occurrence of
\* the query is wrapped in the marker, the wrapped text keeps its letter case,
\* nothing else is wrapped, and removing the markers gives the snippet back.
EveryOccurrenceWrapped ==
    q_op = "snippet_pass" =>
        /\ OnlyOccurrencesWrapped
        /\ OccStarts \subseteq WrappedStarts

\* C12 as amended: ... every occurrence that does not overlap an occurrence
\* wrapped to its left is wrapped (of overlapping occurrences the leftmost) ...
LeftmostOccurrencesWrapped ==
    q_op = "snippet_pass" =>
        /\ OnlyOccurrencesWrapped
        /\ \A at \in OccStarts :
              at \in WrappedStarts <=>
                  ~\E w \in WrappedStarts : at - Len(q_query) < w /\ w < at

\* two occurrences are wrapped, one of them in another letter case than the
\* query, and an occurrence overlapping a wrapped one is left alone
C12Witness ==
    /\ q_op = "snippet_pass"
    /\ Cardinality(WrappedStarts) >= 2
    /\ OccStarts \ WrappedStarts # {}
    /\ \E at \in WrappedStarts :
          SubSeq(RawSnippet, at + 1, at + Len(q_query)) # q_query

\* what the engine does with the content term of the query
ContentRun ==
    ExecuteMatch(dtf, dfts,
                 <<"c", "o", "n", "t", "e", "n", "t", ":">> \o ExpectedTerm(q_query), WebLimit)

\* the body of the request asks for a search: a non-empty query string and
\* a snippet_length that is absent, an integer or a string of digits
WellFormedBody ==
    /\ resp.data.query.t = "str"
    /\ resp.data.query.v # <<>>
    /\ \/ resp.data.snippet_length = Absent
       \/ resp.data.snippet_length.t = "int"
       \/ /\ resp.data.snippet_length.t = "str"
          /\ resp.data.snippet_length.v # <<>>
          /\ \A k \in DOMAIN resp.data.snippet_length.v :
                resp.data.snippet_length.v[k]
                    \in {"0", "1", "2", "3", "4", "5", "6", "7", "8", "9"}

====
